---- MODULE Spec2Model ----
(***************************************************************************)
(* Model of the training-run orchestrator of src/RRCP/train_all_item.py:   *)
(* train_val (configuration checks, epoch loop, best-loss tracking,        *)
(* checkpoint writes, early stop), run_one_epoch (the two scalars it       *)
(* returns) and delete_model (checkpoint retention).                       *)
(*                                                                         *)
(* A checkpoint file model_<k>.pth of the run's trained_model directory is *)
(* represented by its epoch number k; the directory is created empty by    *)
(* make_saving_folder_and_logger (os.mkdir of a timestamped folder).       *)
(***************************************************************************)
EXTENDS Integers, Sequences, FiniteSets, TLC

\* ---------------------------------------------------------------- bounds
MaxEpochs == 3
MaxPatience == 2
MaxBatches == 2

\* ------------------------------------------------------ program constants
\* train_val: min_total_valid_loss = 1008611
InitMinTotalValidLoss == 1008611
\* run_one_epoch: min_train_loss = 1008611
InitMinTrainLoss == 1008611

\* Values a single batch loss can take (BCE and MSE are non-negative); the
\* last one is a loss as large as the initial value of the best-loss tracker.
BatchLosses == {0, 1, InitMinTotalValidLoss}

\* Batch-loss sequences of one pass over a data loader.
RECURSIVE SeqsUpTo(_)
SeqsUpTo(n) ==
    IF n = 0 THEN {<<>>}
    ELSE LET shorter == SeqsUpTo(n - 1)
         IN  shorter \cup {Append(s, l) : s \in {t \in shorter : Len(t) = n - 1}, l \in BatchLosses}

LossKinds == {"BCE", "MSE", "L1"}
OptimKinds == {"Adam", "SGD", "RMSprop"}

\* argparse namespace fields read by train_val
ArgsSet ==
    [epochs : 0..MaxEpochs, early_stop_turns : -1..MaxPatience,
     loss : LossKinds, optim : OptimKinds]

VARIABLES
    args,                   \* the configuration
    pc,                     \* position of train_val
    loss_fn,                \* "None" until selected
    optim,                  \* "None" until selected
    epoch,                  \* i + 1 of the for loop; 0 before the first iteration
    min_total_valid_loss,
    min_turn,
    min_train_loss,         \* results of the latest run_one_epoch
    total_valid_loss,
    valid_log,              \* the "[ Epoch k (valid) ]" lines of log.txt
    files,                  \* names present in trained_model/
    partial,                \* names whose write did not complete
    exit_status,            \* <<>> while running, <<code>> once the process ended
    \* run_one_epoch taken step by step (EpochSpec); Spec takes it as one step
    \* and leaves these at their initial values
    ep_pc,                  \* position of run_one_epoch, "idle" outside of it
    n_train,                \* number of batches of train_data_loader
    n_valid,                \* number of batches of valid_data_loader
    batch_loss,             \* loss of the current batch
    mode,                   \* "train" after model.train(), "eval" after model.eval()
    params,                 \* number of optimizer steps applied to the model
    ops,                    \* calls made for the current batch, in order
    train_seen,             \* training batch losses of the current epoch
    valid_seen              \* validation batch losses of the current epoch

epoch_vars == <<ep_pc, n_train, n_valid, batch_loss, mode, params, ops, train_seen, valid_seen>>

vars == <<args, pc, loss_fn, optim, epoch, min_total_valid_loss, min_turn,
          min_train_loss, total_valid_loss, valid_log, files, partial, exit_status,
          ep_pc, n_train, n_valid, batch_loss, mode, params, ops, train_seen, valid_seen>>

\* ------------------------------------------------------------ run_one_epoch
\* for batch in train_data_loader: ... if min_train_loss > loss: min_train_loss = loss
RECURSIVE TrainPass(_, _)
TrainPass(batches, m) ==
    IF batches = <<>> THEN m
    ELSE TrainPass(Tail(batches), IF m > Head(batches) THEN Head(batches) ELSE m)

\* for batch in valid_data_loader: ... total_valid_loss += loss
RECURSIVE ValidPass(_, _)
ValidPass(batches, total) ==
    IF batches = <<>> THEN total
    ELSE ValidPass(Tail(batches), total + Head(batches))

run_one_epoch(train, valid) ==
    <<TrainPass(train, InitMinTrainLoss), ValidPass(valid, 0)>>

\* what run_one_epoch can return over the batch losses of the two loaders
EpochResults ==
    {run_one_epoch(train, valid) :
        train \in SeqsUpTo(MaxBatches), valid \in SeqsUpTo(MaxBatches)}

\* ------------------------------------------------------------- delete_model
\* mutant: the name test is inverted, the best checkpoint is the one removed
delete_model_Inverted(dir, turn) == dir \ {name \in dir : name = turn}

\* removes every listed name that differs from model_<min_turn>.pth
delete_model(dir, turn) == dir \ {name \in dir : name # turn}

\* --------------------------------------------------------------- train_val
\* mutant: a tie counts as an improvement
Improves_OrEqual(loss, best) == loss <= best

Improves(loss, best) == loss < best

\* mutant: the 0-based loop variable i is compared instead of i + 1
EarlyStop_ZeroBased(e, turn, patience) == (e - 1) - turn > patience

\* mutant: >= instead of >
EarlyStop_AtLeast(e, turn, patience) == e - turn >= patience

EarlyStop(e, turn, patience) == e - turn > patience

Init ==
    /\ args \in ArgsSet
    /\ pc = "check_loss"
    /\ loss_fn = "None"
    /\ optim = "None"
    /\ epoch = 0
    /\ min_total_valid_loss = InitMinTotalValidLoss
    /\ min_turn = 0
    /\ min_train_loss = InitMinTrainLoss
    /\ total_valid_loss = 0
    /\ valid_log = <<>>
    /\ files = {}
    /\ partial = {}
    /\ exit_status = <<>>
    /\ ep_pc = "idle"
    /\ n_train = 0
    /\ n_valid = 0
    /\ batch_loss = 0
    /\ mode = "train"
    /\ params = 0
    /\ ops = <<>>
    /\ train_seen = <<>>
    /\ valid_seen = <<>>

\* if args.loss == 'BCE' ... elif args.loss == 'MSE' ...
SelectLoss ==
    /\ pc = "check_loss"
    /\ args.loss \in {"BCE", "MSE"}
    /\ loss_fn' = args.loss
    /\ pc' = "check_optim"
    /\ UNCHANGED <<args, optim, epoch, min_total_valid_loss, min_turn, min_train_loss,
                   total_valid_loss, valid_log, files, partial, exit_status>>
    /\ UNCHANGED epoch_vars

\* else: force_stop('Invalid parameter loss!')  ->  sys.exit(1)
InvalidLoss ==
    /\ pc = "check_loss"
    /\ args.loss \notin {"BCE", "MSE"}
    /\ pc' = "exit"
    /\ exit_status' = <<1>>
    /\ UNCHANGED <<args, loss_fn, optim, epoch, min_total_valid_loss, min_turn,
                   min_train_loss, total_valid_loss, valid_log, files, partial>>
    /\ UNCHANGED epoch_vars

\* if args.optim == 'Adam' ... elif args.optim == 'SGD' ...; then the two
\* trackers are initialised and the loop is entered
SelectOptim ==
    /\ pc = "check_optim"
    /\ args.optim \in {"Adam", "SGD"}
    /\ optim' = args.optim
    /\ min_total_valid_loss' = InitMinTotalValidLoss
    /\ min_turn' = 0
    /\ pc' = "for"
    /\ UNCHANGED <<args, loss_fn, epoch, min_train_loss, total_valid_loss,
                   valid_log, files, partial, exit_status>>
    /\ UNCHANGED epoch_vars

\* mutant: force_stop only prints, train_val goes on without an optimizer
InvalidOptim_NoExit ==
    /\ pc = "check_optim"
    /\ args.optim \notin {"Adam", "SGD"}
    /\ pc' = "for"
    /\ UNCHANGED <<args, loss_fn, optim, epoch, min_total_valid_loss, min_turn,
                   min_train_loss, total_valid_loss, valid_log, files, partial, exit_status>>
    /\ UNCHANGED epoch_vars

\* else: force_stop('Invalid parameter optim!')
InvalidOptim ==
    /\ pc = "check_optim"
    /\ args.optim \notin {"Adam", "SGD"}
    /\ pc' = "exit"
    /\ exit_status' = <<1>>
    /\ UNCHANGED <<args, loss_fn, optim, epoch, min_total_valid_loss, min_turn,
                   min_train_loss, total_valid_loss, valid_log, files, partial>>
    /\ UNCHANGED epoch_vars

\* mutant: the loop runs one iteration too many
RunEpoch_Inclusive ==
    /\ pc = "for"
    /\ epoch <= args.epochs
    /\ \E r \in EpochResults :
          /\ min_train_loss' = r[1]
          /\ total_valid_loss' = r[2]
          /\ valid_log' = Append(valid_log, r[2])
    /\ epoch' = epoch + 1
    /\ pc' = "update"
    /\ UNCHANGED <<args, loss_fn, optim, min_total_valid_loss, min_turn,
                   files, partial, exit_status>>
    /\ UNCHANGED epoch_vars

\* for i in range(args.epochs): run_one_epoch(...), the two results are logged
RunEpoch ==
    /\ pc = "for"
    /\ epoch < args.epochs
    /\ \E r \in EpochResults :
          /\ min_train_loss' = r[1]
          /\ total_valid_loss' = r[2]
          /\ valid_log' = Append(valid_log, r[2])
    /\ epoch' = epoch + 1
    /\ pc' = "update"
    /\ UNCHANGED <<args, loss_fn, optim, min_total_valid_loss, min_turn,
                   files, partial, exit_status>>
    /\ UNCHANGED epoch_vars

\* range(args.epochs) is exhausted
LoopExhausted ==
    /\ pc = "for"
    /\ ~(epoch < args.epochs)
    /\ pc' = "delete"
    /\ UNCHANGED <<args, loss_fn, optim, epoch, min_total_valid_loss, min_turn,
                   min_train_loss, total_valid_loss, valid_log, files, partial, exit_status>>
    /\ UNCHANGED epoch_vars

\* if total_valid_loss < min_total_valid_loss: ...
Improve ==
    /\ pc = "update"
    /\ Improves(total_valid_loss, min_total_valid_loss)
    /\ min_total_valid_loss' = total_valid_loss
    /\ min_turn' = epoch
    /\ pc' = "save"
    /\ UNCHANGED <<args, loss_fn, optim, epoch, min_train_loss, total_valid_loss,
                   valid_log, files, partial, exit_status>>
    /\ UNCHANGED epoch_vars

NoImprove ==
    /\ pc = "update"
    /\ ~Improves(total_valid_loss, min_total_valid_loss)
    /\ pc' = "save"
    /\ UNCHANGED <<args, loss_fn, optim, epoch, min_total_valid_loss, min_turn,
                   min_train_loss, total_valid_loss, valid_log, files, partial, exit_status>>
    /\ UNCHANGED epoch_vars

\* mutant: the checkpoint is written only in an epoch that improved
SaveModel_OnlyBest ==
    /\ pc = "save"
    /\ files' = IF min_turn = epoch THEN files \cup {epoch} ELSE files
    /\ pc' = "early_stop"
    /\ UNCHANGED <<args, loss_fn, optim, epoch, min_total_valid_loss, min_turn,
                   min_train_loss, total_valid_loss, valid_log, partial, exit_status>>
    /\ UNCHANGED epoch_vars

\* mutant: the file is named after the 0-based loop variable, model_{i}.pth
SaveModel_ZeroBased ==
    /\ pc = "save"
    /\ files' = files \cup {epoch - 1}
    /\ pc' = "early_stop"
    /\ UNCHANGED <<args, loss_fn, optim, epoch, min_total_valid_loss, min_turn,
                   min_train_loss, total_valid_loss, valid_log, partial, exit_status>>
    /\ UNCHANGED epoch_vars

\* torch.save(model, ".../trained_model/model_{i + 1}.pth") returns
SaveModel ==
    /\ pc = "save"
    /\ files' = files \cup {epoch}
    /\ pc' = "early_stop"
    /\ UNCHANGED <<args, loss_fn, optim, epoch, min_total_valid_loss, min_turn,
                   min_train_loss, total_valid_loss, valid_log, partial, exit_status>>
    /\ UNCHANGED epoch_vars

\* mutant: the failure of torch.save is swallowed and the loop goes on
SaveFails_Swallowed ==
    /\ pc = "save"
    /\ \E created \in BOOLEAN :
          /\ files' = IF created THEN files \cup {epoch} ELSE files
          /\ partial' = IF created THEN partial \cup {epoch} ELSE partial
    /\ pc' = "early_stop"
    /\ UNCHANGED <<args, loss_fn, optim, epoch, min_total_valid_loss, min_turn,
                   min_train_loss, total_valid_loss, valid_log, exit_status>>
    /\ UNCHANGED epoch_vars

\* torch.save raises (disk full, permission): nothing in train_val or main
\* catches it, the interpreter ends with a traceback and status 1.  The file
\* may or may not have been created before the failure.
SaveFails ==
    /\ pc = "save"
    /\ \E created \in BOOLEAN :
          /\ files' = IF created THEN files \cup {epoch} ELSE files
          /\ partial' = IF created THEN partial \cup {epoch} ELSE partial
    /\ pc' = "error"
    /\ exit_status' = <<1>>
    /\ UNCHANGED <<args, loss_fn, optim, epoch, min_total_valid_loss, min_turn,
                   min_train_loss, total_valid_loss, valid_log>>
    /\ UNCHANGED epoch_vars

\* mutant: stale checkpoints are swept inside the loop, whenever it goes on
Continue_Sweeps ==
    /\ pc = "early_stop"
    /\ ~(epoch - min_turn > args.early_stop_turns)
    /\ files' = delete_model(files, min_turn)
    /\ pc' = "for"
    /\ UNCHANGED <<args, loss_fn, optim, epoch, min_total_valid_loss, min_turn,
                   min_train_loss, total_valid_loss, valid_log, partial, exit_status>>
    /\ UNCHANGED epoch_vars

\* if (i + 1) - min_turn > args.early_stop_turns: break
Break ==
    /\ pc = "early_stop"
    /\ EarlyStop(epoch, min_turn, args.early_stop_turns)
    /\ pc' = "delete"
    /\ UNCHANGED <<args, loss_fn, optim, epoch, min_total_valid_loss, min_turn,
                   min_train_loss, total_valid_loss, valid_log, files, partial, exit_status>>
    /\ UNCHANGED epoch_vars

Continue ==
    /\ pc = "early_stop"
    /\ ~EarlyStop(epoch, min_turn, args.early_stop_turns)
    /\ pc' = "for"
    /\ UNCHANGED <<args, loss_fn, optim, epoch, min_total_valid_loss, min_turn,
                   min_train_loss, total_valid_loss, valid_log, files, partial, exit_status>>
    /\ UNCHANGED epoch_vars

\* delete_model(father_folder_name, folder_name, min_turn); train_val and
\* main return, the process ends with status 0
DeleteModel ==
    /\ pc = "delete"
    /\ files' = delete_model(files, min_turn)
    /\ partial' = partial \cap files'
    /\ pc' = "done"
    /\ exit_status' = <<0>>
    /\ UNCHANGED <<args, loss_fn, optim, epoch, min_total_valid_loss, min_turn,
                   min_train_loss, total_valid_loss, valid_log>>
    /\ UNCHANGED epoch_vars

Next ==
    \/ SelectLoss
    \/ InvalidLoss
    \/ SelectOptim
    \/ InvalidOptim
    \/ RunEpoch
    \/ LoopExhausted
    \/ Improve
    \/ NoImprove
    \/ SaveModel
    \/ SaveFails
    \/ Break
    \/ Continue
    \/ DeleteModel

Spec == Init /\ [][Next]_vars

\* The interpreter runs train_val to its end: a step that is possible is taken.
FairSpec == Spec /\ WF_vars(Next)

TypeOK ==
    /\ args \in ArgsSet
    /\ pc \in {"check_loss", "check_optim", "for", "update", "save", "early_stop",
               "delete", "done", "exit", "error"}
    /\ epoch \in 0..MaxEpochs
    /\ min_turn \in 0..MaxEpochs
    /\ files \subseteq 1..MaxEpochs
    /\ partial \subseteq files
    /\ Len(valid_log) = epoch

\* ------------------------------------------ run_one_epoch, step by step
\* Batch losses of the step-wise specification: those of Spec and one loss
\* above the initial min_train_loss.
EpochBatchLosses == BatchLosses \cup {InitMinTrainLoss + 1}

EpochArgsSet ==
    [epochs : 1..2, early_stop_turns : {0},
     loss : {"MSE", "L1"}, optim : {"Adam", "RMSprop"}]

\* the data loaders are built before the loop and have a fixed number of batches
EpochInit ==
    /\ args \in EpochArgsSet
    /\ pc = "check_loss"
    /\ loss_fn = "None"
    /\ optim = "None"
    /\ epoch = 0
    /\ min_total_valid_loss = InitMinTotalValidLoss
    /\ min_turn = 0
    /\ min_train_loss = InitMinTrainLoss
    /\ total_valid_loss = 0
    /\ valid_log = <<>>
    /\ files = {}
    /\ partial = {}
    /\ exit_status = <<>>
    /\ ep_pc = "idle"
    /\ n_train \in 0..MaxBatches
    /\ n_valid \in 0..MaxBatches
    /\ batch_loss = 0
    /\ mode = "train"
    /\ params = 0
    /\ ops = <<>>
    /\ train_seen = <<>>
    /\ valid_seen = <<>>

\* for i in range(args.epochs): run_one_epoch is entered; model.train(),
\* min_train_loss = 1008611
EnterEpoch ==
    /\ pc = "for"
    /\ epoch < args.epochs
    /\ epoch' = epoch + 1
    /\ pc' = "epoch"
    /\ ep_pc' = "train"
    /\ mode' = "train"
    /\ min_train_loss' = InitMinTrainLoss
    /\ ops' = <<>>
    /\ train_seen' = <<>>
    /\ valid_seen' = <<>>
    /\ UNCHANGED <<args, loss_fn, optim, min_total_valid_loss, min_turn, total_valid_loss,
                   valid_log, files, partial, exit_status, n_train, n_valid, batch_loss, params>>

\* next training batch: model.forward(...), loss = loss_fn(output, target)
TrainBatch ==
    /\ pc = "epoch"
    /\ ep_pc = "train"
    /\ Len(train_seen) < n_train
    /\ \E l \in EpochBatchLosses :
          /\ batch_loss' = l
          /\ train_seen' = Append(train_seen, l)
    /\ ops' = <<"forward", "loss">>
    /\ ep_pc' = "zero_grad"
    /\ UNCHANGED <<args, pc, loss_fn, optim, epoch, min_total_valid_loss, min_turn,
                   min_train_loss, total_valid_loss, valid_log, files, partial, exit_status,
                   n_train, n_valid, mode, params, valid_seen>>

\* optim.zero_grad()
ZeroGrad ==
    /\ pc = "epoch"
    /\ ep_pc = "zero_grad"
    /\ ops' = Append(ops, "zero_grad")
    /\ ep_pc' = "backward"
    /\ UNCHANGED <<args, pc, loss_fn, optim, epoch, min_total_valid_loss, min_turn,
                   min_train_loss, total_valid_loss, valid_log, files, partial, exit_status,
                   n_train, n_valid, batch_loss, mode, params, train_seen, valid_seen>>

\* loss.backward()
Backward ==
    /\ pc = "epoch"
    /\ ep_pc = "backward"
    /\ ops' = Append(ops, "backward")
    /\ ep_pc' = "step"
    /\ UNCHANGED <<args, pc, loss_fn, optim, epoch, min_total_valid_loss, min_turn,
                   min_train_loss, total_valid_loss, valid_log, files, partial, exit_status,
                   n_train, n_valid, batch_loss, mode, params, train_seen, valid_seen>>

\* optim.step()
OptimStep ==
    /\ pc = "epoch"
    /\ ep_pc = "step"
    /\ ops' = Append(ops, "step")
    /\ params' = params + 1
    /\ ep_pc' = "track"
    /\ UNCHANGED <<args, pc, loss_fn, optim, epoch, min_total_valid_loss, min_turn,
                   min_train_loss, total_valid_loss, valid_log, files, partial, exit_status,
                   n_train, n_valid, batch_loss, mode, train_seen, valid_seen>>

\* if min_train_loss > loss: min_train_loss = loss
TrackMin ==
    /\ pc = "epoch"
    /\ ep_pc = "track"
    /\ min_train_loss' = IF min_train_loss > batch_loss THEN batch_loss ELSE min_train_loss
    /\ ep_pc' = "train"
    /\ UNCHANGED <<args, pc, loss_fn, optim, epoch, min_total_valid_loss, min_turn,
                   total_valid_loss, valid_log, files, partial, exit_status,
                   n_train, n_valid, batch_loss, mode, params, ops, train_seen, valid_seen>>

\* the training loader is exhausted: model.eval(), total_valid_loss = 0
StartValid ==
    /\ pc = "epoch"
    /\ ep_pc = "train"
    /\ ~(Len(train_seen) < n_train)
    /\ mode' = "eval"
    /\ total_valid_loss' = 0
    /\ ep_pc' = "valid"
    /\ UNCHANGED <<args, pc, loss_fn, optim, epoch, min_total_valid_loss, min_turn,
                   min_train_loss, valid_log, files, partial, exit_status,
                   n_train, n_valid, batch_loss, params, ops, train_seen, valid_seen>>

\* mutant: the validation loop is a copy of the training loop, optimizer
\* step included
ValidBatch_Steps ==
    /\ pc = "epoch"
    /\ ep_pc = "valid"
    /\ Len(valid_seen) < n_valid
    /\ \E l \in EpochBatchLosses :
          /\ batch_loss' = l
          /\ valid_seen' = Append(valid_seen, l)
          /\ total_valid_loss' = total_valid_loss + l
    /\ ops' = <<"forward", "loss", "zero_grad", "backward", "step">>
    /\ params' = params + 1
    /\ UNCHANGED <<args, pc, loss_fn, optim, epoch, min_total_valid_loss, min_turn,
                   min_train_loss, valid_log, files, partial, exit_status,
                   ep_pc, n_train, n_valid, mode, train_seen>>

\* next validation batch under torch.no_grad(): forward, loss,
\* total_valid_loss += loss
ValidBatch ==
    /\ pc = "epoch"
    /\ ep_pc = "valid"
    /\ Len(valid_seen) < n_valid
    /\ \E l \in EpochBatchLosses :
          /\ batch_loss' = l
          /\ valid_seen' = Append(valid_seen, l)
          /\ total_valid_loss' = total_valid_loss + l
    /\ ops' = <<"forward", "loss">>
    /\ UNCHANGED <<args, pc, loss_fn, optim, epoch, min_total_valid_loss, min_turn,
                   min_train_loss, valid_log, files, partial, exit_status,
                   ep_pc, n_train, n_valid, mode, params, train_seen>>

\* return min_train_loss, total_valid_loss; train_val logs the two results
ReturnEpoch ==
    /\ pc = "epoch"
    /\ ep_pc = "valid"
    /\ ~(Len(valid_seen) < n_valid)
    /\ valid_log' = Append(valid_log, total_valid_loss)
    /\ ep_pc' = "idle"
    /\ pc' = "update"
    /\ UNCHANGED <<args, loss_fn, optim, epoch, min_total_valid_loss, min_turn,
                   min_train_loss, total_valid_loss, files, partial, exit_status,
                   n_train, n_valid, batch_loss, mode, params, ops, train_seen, valid_seen>>

EpochNext ==
    \/ SelectLoss
    \/ InvalidLoss
    \/ SelectOptim
    \/ InvalidOptim
    \/ EnterEpoch
    \/ TrainBatch
    \/ ZeroGrad
    \/ Backward
    \/ OptimStep
    \/ TrackMin
    \/ StartValid
    \/ ValidBatch
    \/ ReturnEpoch
    \/ LoopExhausted
    \/ Improve
    \/ NoImprove
    \/ SaveModel
    \/ SaveFails
    \/ Break
    \/ Continue
    \/ DeleteModel

\* train_val with run_one_epoch taken step by step
EpochSpec == EpochInit /\ [][EpochNext]_vars

\* the two scalars of a step-wise epoch are those of run_one_epoch
RunOneEpochAgrees ==
    pc = "update" =>
        <<min_train_loss, total_valid_loss>> = run_one_epoch(train_seen, valid_seen)

\* ------------------------------------------------------------------ helpers
Range(s) == {s[k] : k \in 1..Len(s)}

MinOf(S) == CHOOSE m \in S : \A x \in S : m <= x

\* complete checkpoint files of the trained_model directory
Checkpoints == files \ partial

\* epochs whose checkpoint write has returned
Completed == IF pc \in {"update", "save", "error"} THEN epoch - 1 ELSE epoch

BadConfig == args.loss \notin {"BCE", "MSE"} \/ args.optim \notin {"Adam", "SGD"}

\* ------------------------------------------------------------------- claims

\* C1: once delete_model has returned, exactly one checkpoint file remains in
\* trained_model and it is the checkpoint of epoch min_turn (best_epoch).
\* Stated for the runs that executed at least one epoch (with an epoch cap of
\* 0 no checkpoint is ever written).
C1_ExactlyOneCheckpointRemains ==
    (pc = "done" /\ Len(valid_log) >= 1) =>
        (Cardinality(files) = 1 /\ Checkpoints = {min_turn})

\* C2: min_total_valid_loss (best_valid_loss) never increases, and after the
\* improvement update of every epoch it equals the minimum total_valid_loss of
\* all epochs run so far.
C2_BestIsMinimumSeen ==
    [][ /\ min_total_valid_loss' <= min_total_valid_loss
        /\ (pc' \in {"save", "early_stop", "for", "delete", "done", "error"} /\ valid_log' # <<>>)
              => min_total_valid_loss' = MinOf(Range(valid_log')) ]_vars

\* C3: delete_model invoked with min_turn = 0 removes nothing, and
\* delete_model never removes every checkpoint that the run wrote.
C3_NoMassDeleteAtZero ==
    [][ pc = "delete" =>
          /\ (min_turn = 0 => files' = files)
          /\ (files # {} => files' # {}) ]_vars

\* C4: the loop is left right after epoch i by the early-stop rule iff
\* (i - min_turn) > early_stop_turns with min_turn taken after epoch i's
\* update; no epoch runs once the loop is left; otherwise the loop goes on
\* until the epoch cap.
C4_EarlyStopIffPatienceExceeded ==
    [][ /\ pc = "early_stop" =>
              /\ (pc' = "delete") <=> (Len(valid_log) - min_turn > args.early_stop_turns)
              /\ (pc' = "for") <=> ~(Len(valid_log) - min_turn > args.early_stop_turns)
        /\ pc \in {"delete", "done"} => (epoch' = epoch /\ valid_log' = valid_log)
        /\ (pc = "for" /\ Len(valid_log) < args.epochs) =>
              (pc' = "update" /\ Len(valid_log') = Len(valid_log) + 1)
        /\ (pc = "for" /\ pc' = "delete") => Len(valid_log) = args.epochs ]_vars

C4_Witness ==
    /\ pc = "delete"
    /\ min_turn >= 1
    /\ Len(valid_log) < args.epochs
    /\ Len(valid_log) - min_turn > args.early_stop_turns

\* C5: for early_stop_turns P >= 0 no run executes more than min_turn + P + 1
\* epochs, and when the early-stop rule ends the loop exactly min_turn + P + 1
\* epochs have been executed.
C5_StopsAtPatiencePlusOne ==
    [][ args.early_stop_turns >= 0 =>
          /\ Len(valid_log') <= min_turn' + args.early_stop_turns + 1
          /\ (pc = "early_stop" /\ pc' = "delete")
                => Len(valid_log) = min_turn + args.early_stop_turns + 1 ]_vars

C5_Witness ==
    /\ pc = "delete"
    /\ args.early_stop_turns >= 1
    /\ min_turn >= 1
    /\ Len(valid_log) = min_turn + args.early_stop_turns + 1

\* C6: an epoch whose total_valid_loss equals min_total_valid_loss leaves
\* min_turn and min_total_valid_loss unchanged; min_turn changes only in an
\* epoch whose loss is strictly smaller, and then becomes that epoch's
\* 1-based index.
C6_TieKeepsBest ==
    [][ /\ (pc = "update" /\ total_valid_loss = min_total_valid_loss) =>
              (min_turn' = min_turn /\ min_total_valid_loss' = min_total_valid_loss)
        /\ min_turn' # min_turn =>
              /\ pc = "update"
              /\ total_valid_loss < min_total_valid_loss
              /\ min_turn' = Len(valid_log) ]_vars

C6_Witness ==
    /\ pc = "save"
    /\ Len(valid_log) >= 2
    /\ valid_log[Len(valid_log)] = min_total_valid_loss
    /\ min_turn >= 1
    /\ min_turn < Len(valid_log)

\* C7: until retention has run, after k completed epochs the checkpoints in
\* trained_model are exactly model_1 .. model_k, the epoch at which the
\* early-stop rule fires included.
C7_CheckpointEveryEpoch ==
    pc # "done" =>
        /\ Checkpoints = 1..Completed
        /\ (pc = "delete" => Checkpoints = 1..Len(valid_log))

C7_Witness ==
    /\ pc = "delete"
    /\ Len(valid_log) >= 2
    /\ Len(valid_log) < args.epochs
    /\ min_turn < Len(valid_log)
    /\ Checkpoints = 1..Len(valid_log)

\* C8: when the checkpoint of epoch i is not persisted the run is aborted in
\* an error state: nothing runs afterwards (no epoch, no early-stop check, no
\* retention) and no checkpoint written before is deleted.
C8_SaveFailureAborts ==
    [][ /\ (pc = "save" /\ epoch \notin (files' \ partial')) =>
              /\ pc' = "error"
              /\ exit_status' = <<1>>
              /\ Checkpoints' = Checkpoints
              /\ files \subseteq files'
              /\ valid_log' = valid_log
        /\ pc = "error" => vars' = vars ]_vars

C8_Witness ==
    /\ pc = "error"
    /\ Len(valid_log) >= 2
    /\ Checkpoints = 1..(Len(valid_log) - 1)

\* C9: with a loss outside {BCE, MSE} or an optim outside {Adam, SGD} the
\* process ends with exit status 1 before the first epoch: no epoch is run,
\* no checkpoint is written and delete_model is not called.
C9_InvalidConfigExits ==
    /\ [](BadConfig =>
            /\ pc \in {"check_loss", "check_optim", "exit"}
            /\ valid_log = <<>>
            /\ files = {}
            /\ (pc = "exit" <=> exit_status = <<1>>)
            /\ (pc # "exit" => exit_status = <<>>))
    /\ (BadConfig => <>(pc = "exit" /\ exit_status = <<1>>))

C9_Witness ==
    /\ pc = "exit"
    /\ args.loss \in {"BCE", "MSE"}
    /\ loss_fn = args.loss
    /\ args.optim \notin {"Adam", "SGD"}
    /\ files = {}

\* C10: the number of executed epochs never exceeds the epoch cap, the loop
\* is left only at the cap or by the early-stop rule, and every run reaches
\* its end (after delete_model, unless a fatal error ended it before).
C10_RunTerminates ==
    /\ [](Len(valid_log) <= args.epochs)
    /\ [](pc \in {"delete", "done"} =>
            \/ Len(valid_log) = args.epochs
            \/ Len(valid_log) - min_turn > args.early_stop_turns)
    /\ <>(pc \in {"done", "exit", "error"})
    /\ [](pc = "done" => (exit_status = <<0>> /\ ~BadConfig))

C10_Witness ==
    /\ pc = "done"
    /\ Len(valid_log) = args.epochs
    /\ Len(valid_log) >= 2
    /\ ~(Len(valid_log) - min_turn > args.early_stop_turns)

StrictlyDecreasing(s) == \A k \in 1..(Len(s) - 1) : s[k] > s[k + 1]

\* epochs whose improvement test (line 129) has been evaluated
Updated == IF pc = "update" THEN epoch - 1 ELSE epoch

\* C11: delete_model is invoked exactly once in a run that ends without a
\* fatal error, with the final min_turn, after the last checkpoint write; once
\* it has started no epoch is run and no checkpoint is written.
C11_RetentionOnceAtEnd ==
    [][ /\ ~(files \subseteq files') => (pc = "delete" /\ pc' = "done")
        /\ pc' = "done" => (pc = "delete" \/ pc = "done")
        /\ pc = "delete" =>
              /\ pc' = "done"
              /\ files' = {f \in files : f = min_turn}
              /\ min_turn' = min_turn
              /\ valid_log' = valid_log
              /\ epoch' = epoch
        /\ pc = "done" => vars' = vars ]_vars

C11_Witness ==
    /\ pc = "done"
    /\ Len(valid_log) >= 2
    /\ Len(valid_log) < args.epochs
    /\ min_turn >= 1
    /\ files = {min_turn}

\* C12: with an epoch cap N >= 1, a patience >= 0 and strictly decreasing
\* validation losses, the run executes all N epochs, ends with min_turn = N
\* and retains only the checkpoint of epoch N.
C12_StrictlyImprovingRunsToCap ==
    (/\ pc = "done"
     /\ args.epochs >= 1
     /\ args.early_stop_turns >= 0
     /\ StrictlyDecreasing(valid_log))
        => (/\ Len(valid_log) = args.epochs
            /\ min_turn = args.epochs
            /\ files = {args.epochs})

RECURSIVE SumOf(_)
SumOf(s) == IF s = <<>> THEN 0 ELSE s[1] + SumOf(Tail(s))

FullTrainOps == <<"forward", "loss", "zero_grad", "backward", "step">>

\* C13: run_one_epoch returns the minimum of the epoch's training batch
\* losses as min_train_loss and the sum of its validation batch losses (0
\* when there is none) as total_valid_loss.  The minimum is stated for an
\* epoch with at least one training batch.
C13_EpochReturnsMinAndSum ==
    pc = "update" =>
        /\ (train_seen # <<>> => min_train_loss = MinOf(Range(train_seen)))
        /\ total_valid_loss = SumOf(valid_seen)

\* C14: in an epoch all training batches precede all validation batches;
\* each training batch gets exactly zero_grad, backward, step, in that order,
\* after its loss; the parameters change only by an optimizer step of the
\* training pass, never in the validation pass or in train_val's own steps.
C14_TrainBeforeValidParamsFrame ==
    /\ [][ /\ Len(train_seen') > Len(train_seen) =>
                 (valid_seen = <<>> /\ mode = "train" /\ ops \in {<<>>, FullTrainOps})
           /\ Len(valid_seen') > Len(valid_seen) =>
                 /\ Len(train_seen) = n_train
                 /\ mode = "eval"
                 /\ ops \in {<<>>, FullTrainOps, <<"forward", "loss">>}
           /\ (mode = "train" /\ mode' = "eval") => ops \in {<<>>, FullTrainOps}
           /\ params' # params =>
                 /\ params' = params + 1
                 /\ mode = "train"
                 /\ valid_seen = <<>>
                 /\ ops' = FullTrainOps
           /\ pc # "epoch" => params' = params ]_vars
    /\ [](mode = "eval" => params = n_train * epoch)

C14_Witness ==
    /\ pc = "done"
    /\ epoch = 2
    /\ n_train = 2
    /\ Len(valid_seen) = 2
    /\ params = 4

\* C15: delete_model removes every file of trained_model whose name differs
\* from the best epoch's checkpoint name, never that checkpoint, and leaves
\* log.txt unchanged.
C15_DeleteKeepsOnlyBest ==
    [][ pc = "delete" =>
          /\ \A f \in files : (f # min_turn => f \notin files')
          /\ (min_turn \in files => min_turn \in files')
          /\ files' \subseteq files
          /\ valid_log' = valid_log ]_vars

C15_Witness ==
    /\ pc = "done"
    /\ Len(valid_log) >= 3
    /\ min_turn >= 1
    /\ min_turn < Len(valid_log)
    /\ files = {min_turn}

\* C17: from the end of the first epoch on min_turn >= 1, whatever the
\* epoch's total_valid_loss was.
C17_FirstEpochAlwaysImproves ==
    (Len(valid_log) >= 1 /\ pc # "update") => min_turn >= 1

\* C18: when min_turn >= 1, the loss of epoch min_turn is
\* min_total_valid_loss, every earlier epoch had a strictly larger loss and
\* no epoch whose improvement test has been evaluated had a smaller one.
C18_BestIsEarliestMinimum ==
    min_turn >= 1 =>
        /\ min_turn <= Len(valid_log)
        /\ valid_log[min_turn] = min_total_valid_loss
        /\ \A k \in 1..(min_turn - 1) : valid_log[k] > min_total_valid_loss
        /\ \A k \in 1..Updated : valid_log[k] >= min_total_valid_loss

C18_Witness ==
    /\ pc = "early_stop"
    /\ Len(valid_log) >= 3
    /\ min_turn = 2
    /\ valid_log[3] = valid_log[2]
    /\ valid_log[1] > valid_log[2]

\* C19: 0 <= min_turn <= epochs started <= epoch cap in every state of the
\* loop, and min_turn never decreases.
C19_BestEpochBounds ==
    /\ [](0 <= min_turn /\ min_turn <= Len(valid_log) /\ Len(valid_log) <= args.epochs)
    /\ [][min_turn' >= min_turn]_vars

C19_Witness ==
    /\ pc = "for"
    /\ min_turn >= 2
    /\ min_turn < Len(valid_log)
    /\ Len(valid_log) <= args.epochs

\* C20: when delete_model is invoked with min_turn >= 1 the checkpoint of
\* epoch min_turn is in trained_model, so retention does not empty the
\* directory; in the loop min_turn is set to i before model_i is written.
C20_BestCheckpointExistsAtRetention ==
    /\ []((pc = "delete" /\ min_turn >= 1) => min_turn \in Checkpoints)
    /\ []((pc = "done" /\ min_turn >= 1) => Checkpoints = {min_turn})
    /\ [][min_turn' # min_turn => (min_turn' \notin files /\ min_turn' \notin files')]_vars

C20_Witness ==
    /\ pc = "done"
    /\ min_turn >= 2
    /\ min_turn = Len(valid_log)
    /\ Checkpoints = {min_turn}
====
